---- MODULE Spec2Model ----
(***************************************************************************)
(* Model of the account actions (AddAccountAction, RemoveAccountAction,    *)
(* RefreshAccountAction) and of the dashboard WebviewWidget.               *)
(*                                                                         *)
(* Every component keeps a log: the sequence of the calls it receives, the *)
(* calls it makes on its collaborators, the events it fires and the way    *)
(* its promises settle, in the order the code performs them.  A promise    *)
(* callback is one step of the event loop, so each handler body is one     *)
(* action.  The collaborators (account service, dialog service, content    *)
(* surface, dashboard service) are the environment: they settle their      *)
(* promises, emit messages and change state nondeterministically.          *)
(***************************************************************************)
EXTENDS Integers, Sequences, FiniteSets, TLC

VARIABLES
    addProviderId,  \* AddAccountAction._providerId
    addPc,          \* per run(): "idle", "pending", "fulfilled", "rejected", "done"
    addErr,         \* per run(): the value addAccount rejected with
    addResult,      \* per run(): the promise run() returned
    addLog,         \* events fired, service calls, settlements
    rmAccount,      \* RemoveAccountAction._account
    rmPc,           \* per run(): position in the promise chain
    rmVal,          \* per run(): value the awaited promise settled with
    rmResult,       \* per run(): the promise run() returned
    rmLog,
    rfAccount,      \* RefreshAccountAction.account
    rfPc,
    rfVal,
    rfSeen,         \* per run(): the account field as run() read it
    rfResult,
    rfLog,
    wvWebview,      \* WebviewWidget._webview: 0 (unset) or a surface id
    wvHtml,         \* WebviewWidget._html
    wvSub,          \* WebviewWidget._onMessageDisposable: 0 or a surface id
    wvSurfaces,     \* every surface instantiated so far
    wvLog,
    svcProfile,     \* connectionInfo.connectionProfile of the dashboard service
    svcServerInfo,  \* connectionInfo.serverInfo of the dashboard service
    connMemo,       \* memoized value of the connection getter
    infoMemo,       \* memoized value of the serverInfo getter
    connLog

addVars == <<addProviderId, addPc, addErr, addResult, addLog>>
rmVars == <<rmAccount, rmPc, rmVal, rmResult, rmLog>>
rfVars == <<rfAccount, rfPc, rfVal, rfSeen, rfResult, rfLog>>
wvVars == <<wvWebview, wvHtml, wvSub, wvSurfaces, wvLog>>
connVars == <<svcProfile, svcServerInfo, connMemo, infoMemo, connLog>>
vars == <<addVars, rmVars, rfVars, wvVars, connVars>>

-----------------------------------------------------------------------------
(* Bounds *)

MaxRuns == 2

Runs == 1..MaxRuns

Errors == {"E", "F"}

ProviderIds == {"azure", "other"}

\* a promise: state is "none" (run() not called), "pending", "resolved", "rejected"
Promise(state, value) == [state |-> state, value |-> value]

NoPromise == Promise("none", "")

Entry(op, run, arg) == [op |-> op, run |-> run, arg |-> arg]

\* indices of the log entries of run r with operation op
Idx(log, op, r) == {i \in 1..Len(log) : log[i].op = op /\ log[i].run = r}

\* indices of the log entries with operation op
IdxOp(log, op) == {i \in 1..Len(log) : log[i].op = op}

-----------------------------------------------------------------------------
(* AddAccountAction *)

notAdd == <<rmVars, rfVars, wvVars, connVars>>

InitAdd ==
    /\ addProviderId \in ProviderIds
    /\ addPc = [r \in Runs |-> "idle"]
    /\ addErr = [r \in Runs |-> ""]
    /\ addResult = [r \in Runs |-> NoPromise]
    /\ addLog = <<>>

\* mutant of AddRun: the start event is fired after addAccount is called
AddRunLateStart(r) ==
    /\ addPc[r] = "idle"
    /\ addLog' = addLog \o <<Entry("addAccount", r, addProviderId),
                             Entry("start", r, "")>>
    /\ addPc' = [addPc EXCEPT ![r] = "pending"]
    /\ addResult' = [addResult EXCEPT ![r] = Promise("pending", "")]
    /\ UNCHANGED <<addProviderId, addErr, notAdd>>

\* run(): fire start, then the promise executor calls addAccount
AddRun(r) ==
    /\ addPc[r] = "idle"
    /\ addLog' = addLog \o <<Entry("start", r, ""),
                             Entry("addAccount", r, addProviderId)>>
    /\ addPc' = [addPc EXCEPT ![r] = "pending"]
    /\ addResult' = [addResult EXCEPT ![r] = Promise("pending", "")]
    /\ UNCHANGED <<addProviderId, addErr, notAdd>>

\* the account service settles the promise addAccount returned
AddAccountFulfils(r) ==
    /\ addPc[r] = "pending"
    /\ addPc' = [addPc EXCEPT ![r] = "fulfilled"]
    /\ addLog' = Append(addLog, Entry("addResolved", r, ""))
    /\ UNCHANGED <<addProviderId, addErr, addResult, notAdd>>

AddAccountRejects(r, e) ==
    /\ addPc[r] = "pending"
    /\ addPc' = [addPc EXCEPT ![r] = "rejected"]
    /\ addErr' = [addErr EXCEPT ![r] = e]
    /\ addLog' = Append(addLog, Entry("addRejected", r, e))
    /\ UNCHANGED <<addProviderId, addResult, notAdd>>

\* mutant of AddOnFulfilled: the complete event is not fired on success
AddOnFulfilledNoComplete(r) ==
    /\ addPc[r] = "fulfilled"
    /\ addLog' = Append(addLog, Entry("resolve", r, "true"))
    /\ addResult' = [addResult EXCEPT ![r] = Promise("resolved", "true")]
    /\ addPc' = [addPc EXCEPT ![r] = "done"]
    /\ UNCHANGED <<addProviderId, addErr, notAdd>>

\* the fulfilment callback
AddOnFulfilled(r) ==
    /\ addPc[r] = "fulfilled"
    /\ addLog' = addLog \o <<Entry("complete", r, ""),
                             Entry("resolve", r, "true")>>
    /\ addResult' = [addResult EXCEPT ![r] = Promise("resolved", "true")]
    /\ addPc' = [addPc EXCEPT ![r] = "done"]
    /\ UNCHANGED <<addProviderId, addErr, notAdd>>

\* mutant of AddOnRejected: complete is fired before error
AddOnRejectedCompleteFirst(r) ==
    /\ addPc[r] = "rejected"
    /\ addLog' = addLog \o <<Entry("logError", r, addErr[r]),
                             Entry("complete", r, ""),
                             Entry("error", r, addErr[r]),
                             Entry("reject", r, addErr[r])>>
    /\ addResult' = [addResult EXCEPT ![r] = Promise("rejected", addErr[r])]
    /\ addPc' = [addPc EXCEPT ![r] = "done"]
    /\ UNCHANGED <<addProviderId, addErr, notAdd>>

\* the rejection callback
AddOnRejected(r) ==
    /\ addPc[r] = "rejected"
    /\ addLog' = addLog \o <<Entry("logError", r, addErr[r]),
                             Entry("error", r, addErr[r]),
                             Entry("complete", r, ""),
                             Entry("reject", r, addErr[r])>>
    /\ addResult' = [addResult EXCEPT ![r] = Promise("rejected", addErr[r])]
    /\ addPc' = [addPc EXCEPT ![r] = "done"]
    /\ UNCHANGED <<addProviderId, addErr, notAdd>>

NextAdd ==
    \/ \E r \in Runs : AddRun(r)
    \/ \E r \in Runs : AddAccountFulfils(r)
    \/ \E r \in Runs, e \in Errors : AddAccountRejects(r, e)
    \/ \E r \in Runs : AddOnFulfilled(r)
    \/ \E r \in Runs : AddOnRejected(r)

-----------------------------------------------------------------------------
(* RemoveAccountAction *)

notRm == <<addVars, rfVars, wvVars, connVars>>

AccountKeys == {"k1", "k2"}

Account(key) == [key |-> key, displayName |-> "name-" \o key]

Accounts == {Account(k) : k \in AccountKeys}

InitRm ==
    /\ rmAccount \in Accounts
    /\ rmPc = [r \in Runs |-> "idle"]
    /\ rmVal = [r \in Runs |-> ""]
    /\ rmResult = [r \in Runs |-> NoPromise]
    /\ rmLog = [r \in Runs |-> <<>>]

\* run(): build the confirmation and ask the dialog service
RemoveRun(r) ==
    /\ rmPc[r] = "idle"
    /\ rmLog' = [rmLog EXCEPT ![r] = Append(@, Entry("confirm", r, rmAccount.displayName))]
    /\ rmPc' = [rmPc EXCEPT ![r] = "confirming"]
    /\ rmResult' = [rmResult EXCEPT ![r] = Promise("pending", "")]
    /\ UNCHANGED <<rmAccount, rmVal, notRm>>

\* the dialog service settles the promise confirm returned
ConfirmResolves(r, b) ==
    /\ rmPc[r] = "confirming"
    /\ rmPc' = [rmPc EXCEPT ![r] = "confirmResolved"]
    /\ rmVal' = [rmVal EXCEPT ![r] = b]
    /\ rmLog' = [rmLog EXCEPT ![r] = Append(@, Entry("confirmResolved", r, b))]
    /\ UNCHANGED <<rmAccount, rmResult, notRm>>

ConfirmRejects(r, e) ==
    /\ rmPc[r] = "confirming"
    /\ rmPc' = [rmPc EXCEPT ![r] = "confirmRejected"]
    /\ rmVal' = [rmVal EXCEPT ![r] = e]
    /\ rmLog' = [rmLog EXCEPT ![r] = Append(@, Entry("confirmRejected", r, e))]
    /\ UNCHANGED <<rmAccount, rmResult, notRm>>

\* mutant of RemoveOnConfirm: the answer of the dialog is not tested
RemoveOnConfirmUntested(r) ==
    /\ rmPc[r] = "confirmResolved"
    /\ rmLog' = [rmLog EXCEPT ![r] = Append(@, Entry("removeAccount", r, rmAccount.key))]
    /\ rmPc' = [rmPc EXCEPT ![r] = "removing"]
    /\ UNCHANGED <<rmResult, rmAccount, rmVal, notRm>>

\* then(result => ...): declined, or confirmed and removeAccount is called
RemoveOnConfirm(r) ==
    /\ rmPc[r] = "confirmResolved"
    /\ IF rmVal[r] = "false"
       THEN /\ rmLog' = [rmLog EXCEPT ![r] = Append(@, Entry("resolve", r, "false"))]
            /\ rmResult' = [rmResult EXCEPT ![r] = Promise("resolved", "false")]
            /\ rmPc' = [rmPc EXCEPT ![r] = "done"]
       ELSE /\ rmLog' = [rmLog EXCEPT ![r] = Append(@, Entry("removeAccount", r, rmAccount.key))]
            /\ rmPc' = [rmPc EXCEPT ![r] = "removing"]
            /\ UNCHANGED rmResult
    /\ UNCHANGED <<rmAccount, rmVal, notRm>>

\* then() has no rejection handler: the rejection passes to the returned promise
RemoveConfirmFailed(r) ==
    /\ rmPc[r] = "confirmRejected"
    /\ rmLog' = [rmLog EXCEPT ![r] = Append(@, Entry("reject", r, rmVal[r]))]
    /\ rmResult' = [rmResult EXCEPT ![r] = Promise("rejected", rmVal[r])]
    /\ rmPc' = [rmPc EXCEPT ![r] = "done"]
    /\ UNCHANGED <<rmAccount, rmVal, notRm>>

\* the account service settles the promise removeAccount returned
RemoveAccountResolves(r, b) ==
    /\ rmPc[r] = "removing"
    /\ rmPc' = [rmPc EXCEPT ![r] = "removeResolved"]
    /\ rmVal' = [rmVal EXCEPT ![r] = b]
    /\ rmLog' = [rmLog EXCEPT ![r] = Append(@, Entry("removeResolved", r, b))]
    /\ UNCHANGED <<rmAccount, rmResult, notRm>>

RemoveAccountRejects(r, e) ==
    /\ rmPc[r] = "removing"
    /\ rmPc' = [rmPc EXCEPT ![r] = "removeRejected"]
    /\ rmVal' = [rmVal EXCEPT ![r] = e]
    /\ rmLog' = [rmLog EXCEPT ![r] = Append(@, Entry("removeRejected", r, e))]
    /\ UNCHANGED <<rmAccount, rmResult, notRm>>

\* (result) => { resolve(result); }
RemoveOnFulfilled(r) ==
    /\ rmPc[r] = "removeResolved"
    /\ rmLog' = [rmLog EXCEPT ![r] = Append(@, Entry("resolve", r, rmVal[r]))]
    /\ rmResult' = [rmResult EXCEPT ![r] = Promise("resolved", rmVal[r])]
    /\ rmPc' = [rmPc EXCEPT ![r] = "done"]
    /\ UNCHANGED <<rmAccount, rmVal, notRm>>

\* mutant of RemoveOnRejected: the failure is passed on to the caller
RemoveOnRejectedPropagates(r) ==
    /\ rmPc[r] = "removeRejected"
    /\ rmLog' = [rmLog EXCEPT ![r] = @ \o <<Entry("notify", r, "Error"),
                           Entry("reject", r, rmVal[r])>>]
    /\ rmResult' = [rmResult EXCEPT ![r] = Promise("rejected", rmVal[r])]
    /\ rmPc' = [rmPc EXCEPT ![r] = "done"]
    /\ UNCHANGED <<rmAccount, rmVal, notRm>>

\* (err) => { notify(...); resolve(false); }
RemoveOnRejected(r) ==
    /\ rmPc[r] = "removeRejected"
    /\ rmLog' = [rmLog EXCEPT ![r] = @ \o <<Entry("notify", r, "Error"),
                           Entry("resolve", r, "false")>>]
    /\ rmResult' = [rmResult EXCEPT ![r] = Promise("resolved", "false")]
    /\ rmPc' = [rmPc EXCEPT ![r] = "done"]
    /\ UNCHANGED <<rmAccount, rmVal, notRm>>

Booleans == {"true", "false"}

NextRm ==
    \/ \E r \in Runs : RemoveRun(r)
    \/ \E r \in Runs, b \in Booleans : ConfirmResolves(r, b)
    \/ \E r \in Runs, e \in Errors : ConfirmRejects(r, e)
    \/ \E r \in Runs : RemoveOnConfirm(r)
    \/ \E r \in Runs : RemoveConfirmFailed(r)
    \/ \E r \in Runs, b \in Booleans : RemoveAccountResolves(r, b)
    \/ \E r \in Runs, e \in Errors : RemoveAccountRejects(r, e)
    \/ \E r \in Runs : RemoveOnFulfilled(r)
    \/ \E r \in Runs : RemoveOnRejected(r)

-----------------------------------------------------------------------------
(* RefreshAccountAction *)

notRf == <<addVars, rmVars, wvVars, connVars>>

\* the account field before the caller assigns it
NoAccount == [key |-> "", displayName |-> ""]

NoAccountToRefresh == "There is no account to refresh"

InitRf ==
    /\ rfAccount = NoAccount
    /\ rfPc = [r \in Runs |-> "idle"]
    /\ rfVal = [r \in Runs |-> ""]
    /\ rfSeen = [r \in Runs |-> NoAccount]
    /\ rfResult = [r \in Runs |-> NoPromise]
    /\ rfLog = [r \in Runs |-> <<>>]

\* the caller assigns the public account field
SetAccount(a) ==
    /\ rfAccount # a
    /\ rfAccount' = a
    /\ UNCHANGED <<rfPc, rfVal, rfSeen, rfResult, rfLog, notRf>>

\* mutant of RefreshRun: refreshAccount is called without testing the account
RefreshRunUntested(r) ==
    /\ rfPc[r] = "idle"
    /\ rfSeen' = [rfSeen EXCEPT ![r] = rfAccount]
    /\ rfLog' = [rfLog EXCEPT ![r] = @ \o <<Entry("run", r, rfAccount.key),
                                   Entry("refreshAccount", r, rfAccount.key)>>]
    /\ rfPc' = [rfPc EXCEPT ![r] = "pending"]
    /\ rfResult' = [rfResult EXCEPT ![r] = Promise("pending", "")]
    /\ UNCHANGED <<rfAccount, rfVal, notRf>>

\* run(): the promise executor tests the account field
RefreshRun(r) ==
    /\ rfPc[r] = "idle"
    /\ rfSeen' = [rfSeen EXCEPT ![r] = rfAccount]
    /\ IF rfAccount # NoAccount
       THEN /\ rfLog' = [rfLog EXCEPT ![r] = @ \o <<Entry("run", r, rfAccount.key),
                                   Entry("refreshAccount", r, rfAccount.key)>>]
            /\ rfPc' = [rfPc EXCEPT ![r] = "pending"]
            /\ rfResult' = [rfResult EXCEPT ![r] = Promise("pending", "")]
       ELSE /\ rfLog' = [rfLog EXCEPT ![r] = @ \o <<Entry("run", r, rfAccount.key),
                                   Entry("reject", r, NoAccountToRefresh)>>]
            /\ rfPc' = [rfPc EXCEPT ![r] = "done"]
            /\ rfResult' = [rfResult EXCEPT ![r] =
                                Promise("rejected", NoAccountToRefresh)]
    /\ UNCHANGED <<rfAccount, rfVal, notRf>>

\* the account service settles the promise refreshAccount returned
RefreshAccountFulfils(r) ==
    /\ rfPc[r] = "pending"
    /\ rfPc' = [rfPc EXCEPT ![r] = "fulfilled"]
    /\ rfLog' = [rfLog EXCEPT ![r] = Append(@, Entry("refreshResolved", r, ""))]
    /\ UNCHANGED <<rfAccount, rfVal, rfSeen, rfResult, notRf>>

RefreshAccountRejects(r, e) ==
    /\ rfPc[r] = "pending"
    /\ rfPc' = [rfPc EXCEPT ![r] = "rejected"]
    /\ rfVal' = [rfVal EXCEPT ![r] = e]
    /\ rfLog' = [rfLog EXCEPT ![r] = Append(@, Entry("refreshRejected", r, e))]
    /\ UNCHANGED <<rfAccount, rfSeen, rfResult, notRf>>

\* () => { resolve(true); }
RefreshOnFulfilled(r) ==
    /\ rfPc[r] = "fulfilled"
    /\ rfLog' = [rfLog EXCEPT ![r] = Append(@, Entry("resolve", r, "true"))]
    /\ rfResult' = [rfResult EXCEPT ![r] = Promise("resolved", "true")]
    /\ rfPc' = [rfPc EXCEPT ![r] = "done"]
    /\ UNCHANGED <<rfAccount, rfVal, rfSeen, notRf>>

\* err => { error(...); reject(err); }
RefreshOnRejected(r) ==
    /\ rfPc[r] = "rejected"
    /\ rfLog' = [rfLog EXCEPT ![r] = @ \o <<Entry("logError", r, rfVal[r]),
                           Entry("reject", r, rfVal[r])>>]
    /\ rfResult' = [rfResult EXCEPT ![r] = Promise("rejected", rfVal[r])]
    /\ rfPc' = [rfPc EXCEPT ![r] = "done"]
    /\ UNCHANGED <<rfAccount, rfVal, rfSeen, notRf>>

NextRf ==
    \/ \E a \in Accounts \cup {NoAccount} : SetAccount(a)
    \/ \E r \in Runs : RefreshRun(r)
    \/ \E r \in Runs : RefreshAccountFulfils(r)
    \/ \E r \in Runs, e \in Errors : RefreshAccountRejects(r, e)
    \/ \E r \in Runs : RefreshOnFulfilled(r)
    \/ \E r \in Runs : RefreshOnRejected(r)

-----------------------------------------------------------------------------
(* WebviewWidget: content surface *)

notWv == <<addVars, rmVars, rfVars, connVars>>

MaxSurfaces == 2

MaxCalls == 2

MaxMsgs == 1

\* the value of a field that was never assigned
Undefined == "<undefined>"

Htmls == {"", "x", "y"}

Messages == {"m"}

\* JavaScript truthiness of a string-or-undefined value
Truthy(v) == v # Undefined /\ v # ""

Surface(contents) == [disposed |-> FALSE, listening |-> TRUE, contents |-> contents]

\* operations of the widget's public interface, as logged
CallOps == {"setHtml", "sendMessage", "layout"}

Calls(log) == {i \in 1..Len(log) : log[i].op \in CallOps}

InitWv ==
    /\ wvWebview = 0
    /\ wvHtml = Undefined
    /\ wvSub = 0
    /\ wvSurfaces = <<>>
    /\ wvLog = <<>>

\* mutant of createWebview: the cached html is not applied to the new surface
createWebviewNoHtml(log) ==
    LET new == Len(wvSurfaces) + 1
        disposed == [s \in DOMAIN wvSurfaces |->
                        [wvSurfaces[s] EXCEPT
                            !.disposed = @ \/ s = wvWebview,
                            !.listening = @ /\ s # wvSub]]
    IN  /\ wvSurfaces' = Append(disposed, Surface(Undefined))
        /\ wvWebview' = new
        /\ wvSub' = new
        /\ wvLog' = log
                \o (IF wvWebview # 0
                      THEN <<Entry("dispose", wvWebview, "")>> ELSE <<>>)
                \o (IF wvSub # 0
                      THEN <<Entry("unsubscribe", wvSub, "")>> ELSE <<>>)
                \o <<Entry("createInstance", new, ""),
                     Entry("mountTo", new, ""),
                     Entry("onMessage", new, ""),
                     Entry("style", new, ""),
                     Entry("layoutSurface", new, "")>>

\* mutant of createWebview: the previous message subscription is kept
createWebviewKeepsSubscription(log) ==
    LET new == Len(wvSurfaces) + 1
        disposed == [s \in DOMAIN wvSurfaces |->
                        [wvSurfaces[s] EXCEPT
                            !.disposed = @ \/ s = wvWebview]]
    IN  /\ wvSurfaces' = Append(disposed,
                Surface(IF Truthy(wvHtml) THEN wvHtml ELSE Undefined))
        /\ wvWebview' = new
        /\ wvSub' = new
        /\ wvLog' = log
                \o (IF wvWebview # 0
                      THEN <<Entry("dispose", wvWebview, "")>> ELSE <<>>)
                \o <<Entry("createInstance", new, ""),
                     Entry("mountTo", new, ""),
                     Entry("onMessage", new, ""),
                     Entry("style", new, "")>>
                \o (IF Truthy(wvHtml)
                      THEN <<Entry("contents", new, wvHtml)>> ELSE <<>>)
                \o <<Entry("layoutSurface", new, "")>>

\* _createWebview(), entered with the log as the caller left it
createWebview(log) ==
    LET new == Len(wvSurfaces) + 1
        disposed == [s \in DOMAIN wvSurfaces |->
                        [wvSurfaces[s] EXCEPT
                            !.disposed = @ \/ s = wvWebview,
                            !.listening = @ /\ s # wvSub]]
    IN  /\ wvSurfaces' = Append(disposed,
                Surface(IF Truthy(wvHtml) THEN wvHtml ELSE Undefined))
        /\ wvWebview' = new
        /\ wvSub' = new
        /\ wvLog' = log
                \o (IF wvWebview # 0
                      THEN <<Entry("dispose", wvWebview, "")>> ELSE <<>>)
                \o (IF wvSub # 0
                      THEN <<Entry("unsubscribe", wvSub, "")>> ELSE <<>>)
                \o <<Entry("createInstance", new, ""),
                     Entry("mountTo", new, ""),
                     Entry("onMessage", new, ""),
                     Entry("style", new, "")>>
                \o (IF Truthy(wvHtml)
                      THEN <<Entry("contents", new, wvHtml)>> ELSE <<>>)
                \o <<Entry("layoutSurface", new, "")>>

ngOnInit ==
    /\ Len(wvSurfaces) < MaxSurfaces
    /\ createWebview(wvLog \o <<Entry("ngOnInit", 0, ""),
                                Entry("registerWebview", 0, "")>>)
    /\ UNCHANGED <<wvHtml, notWv>>

setHtml(html) ==
    /\ Cardinality(Calls(wvLog)) < MaxCalls
    /\ wvHtml' = html
    /\ IF wvWebview # 0
       THEN /\ wvSurfaces' = [wvSurfaces EXCEPT ![wvWebview].contents = html]
            /\ wvLog' = wvLog \o <<Entry("setHtml", 0, html),
                                   Entry("contents", wvWebview, html),
                                   Entry("layoutSurface", wvWebview, "")>>
       ELSE /\ wvLog' = Append(wvLog, Entry("setHtml", 0, html))
            /\ UNCHANGED wvSurfaces
    /\ UNCHANGED <<wvWebview, wvSub, notWv>>

\* layout(): dereferences _webview without testing it
layout ==
    /\ Cardinality(Calls(wvLog)) < MaxCalls
    /\ IF wvWebview # 0
       THEN wvLog' = wvLog \o <<Entry("layout", 0, ""),
                                Entry("layoutSurface", wvWebview, "")>>
       ELSE wvLog' = wvLog \o <<Entry("layout", 0, ""),
                                Entry("throw", 0, "TypeError")>>
    /\ UNCHANGED <<wvWebview, wvHtml, wvSub, wvSurfaces, notWv>>

sendMessage(message) ==
    /\ Cardinality(Calls(wvLog)) < MaxCalls
    /\ IF wvWebview # 0
       THEN wvLog' = wvLog \o <<Entry("sendMessage", 0, message),
                                Entry("sendToSurface", wvWebview, message)>>
       ELSE wvLog' = Append(wvLog, Entry("sendMessage", 0, message))
    /\ UNCHANGED <<wvWebview, wvHtml, wvSub, wvSurfaces, notWv>>

\* surface s emits a message; the listener e => this._onMessage.fire(e)
\* runs while its subscription is not disposed
SurfaceMessage(s, e) ==
    /\ Cardinality(IdxOp(wvLog, "message")) < MaxMsgs
    /\ s \in DOMAIN wvSurfaces
    /\ IF wvSurfaces[s].listening
       THEN wvLog' = wvLog \o <<Entry("message", s, e), Entry("fire", s, e)>>
       ELSE wvLog' = Append(wvLog, Entry("message", s, e))
    /\ UNCHANGED <<wvWebview, wvHtml, wvSub, wvSurfaces, notWv>>

NextWv ==
    \/ ngOnInit
    \/ \E html \in Htmls : setHtml(html)
    \/ layout
    \/ \E message \in Messages : sendMessage(message)
    \/ \E s \in 1..MaxSurfaces, e \in Messages : SurfaceMessage(s, e)

-----------------------------------------------------------------------------
(* WebviewWidget: connection and serverInfo *)

notConn == <<addVars, rmVars, rfVars, wvVars>>

MaxAccesses == 4

Profiles == {[providerName |-> "MSSQL", id |-> "c1", options |-> "o1"],
             [providerName |-> "MSSQL", id |-> "c2", options |-> "o2"],
             [providerName |-> "PGSQL", id |-> "c3", options |-> "o1"]}

ServerInfos == {"v14", "v15"}

\* the memo slot of a getter that has not run yet
NoMemo == [set |-> FALSE, value |-> Undefined]

Memo(v) == [set |-> TRUE, value |-> v]

\* body of the connection getter
Connection(currentConnection) ==
    [providerName |-> currentConnection.providerName,
     connectionId |-> currentConnection.id,
     options |-> currentConnection.options]

\* @memoize: run the getter once per instance, then return the stored value
memoize(memo, compute) == IF memo.set THEN memo ELSE Memo(compute)

\* one read of a getter: what it returned and what the service held then
Access(op, value, current) == [op |-> op, value |-> value, current |-> current]

InitConn ==
    /\ svcProfile \in Profiles
    /\ svcServerInfo \in ServerInfos
    /\ connMemo = NoMemo
    /\ infoMemo = NoMemo
    /\ connLog = <<>>

\* the dashboard service switches to another connection
ChangeConnection(p, i) ==
    /\ <<p, i>> # <<svcProfile, svcServerInfo>>
    /\ svcProfile' = p
    /\ svcServerInfo' = i
    /\ UNCHANGED <<connMemo, infoMemo, connLog, notConn>>

\* mutant of connection: the getter is evaluated on every access
connectionNotMemoized ==
    /\ Len(connLog) < MaxAccesses
    /\ connMemo' = Memo(Connection(svcProfile))
    /\ connLog' = Append(connLog,
            Access("connection", connMemo'.value, Connection(svcProfile)))
    /\ UNCHANGED <<svcProfile, svcServerInfo, infoMemo, notConn>>

connection ==
    /\ Len(connLog) < MaxAccesses
    /\ connMemo' = memoize(connMemo, Connection(svcProfile))
    /\ connLog' = Append(connLog,
            Access("connection", connMemo'.value, Connection(svcProfile)))
    /\ UNCHANGED <<svcProfile, svcServerInfo, infoMemo, notConn>>

serverInfo ==
    /\ Len(connLog) < MaxAccesses
    /\ infoMemo' = memoize(infoMemo, svcServerInfo)
    /\ connLog' = Append(connLog,
            Access("serverInfo", infoMemo'.value, svcServerInfo))
    /\ UNCHANGED <<svcProfile, svcServerInfo, connMemo, notConn>>

NextConn ==
    \/ \E p \in Profiles, i \in ServerInfos : ChangeConnection(p, i)
    \/ connection
    \/ serverInfo

-----------------------------------------------------------------------------
(* Specifications *)

Init == InitAdd /\ InitRm /\ InitRf /\ InitWv /\ InitConn

Next == NextAdd \/ NextRm \/ NextRf \/ NextWv \/ NextConn

Spec == Init /\ [][Next]_vars

\* one component acting alone; the others rest in one of their initial states
QuietAdd == InitAdd /\ addProviderId = "azure"

QuietRm == InitRm /\ rmAccount = Account("k1")

QuietConn ==
    /\ InitConn
    /\ svcProfile = [providerName |-> "MSSQL", id |-> "c1", options |-> "o1"]
    /\ svcServerInfo = "v14"

OnlyAdd == InitAdd /\ QuietRm /\ InitRf /\ InitWv /\ QuietConn

SpecAdd == OnlyAdd /\ [][NextAdd]_vars

OnlyRm == QuietAdd /\ InitRm /\ InitRf /\ InitWv /\ QuietConn

SpecRm == OnlyRm /\ [][NextRm]_vars

OnlyRf == QuietAdd /\ QuietRm /\ InitRf /\ InitWv /\ QuietConn

SpecRf == OnlyRf /\ [][NextRf]_vars

OnlyWv == QuietAdd /\ QuietRm /\ InitRf /\ InitWv /\ QuietConn

SpecWv == OnlyWv /\ [][NextWv]_vars

OnlyConn == QuietAdd /\ QuietRm /\ InitRf /\ InitWv /\ InitConn

SpecConn == OnlyConn /\ [][NextConn]_vars

-----------------------------------------------------------------------------
(* AddAccountAction: properties *)

AddEventOps == {"start", "error", "complete"}

\* the events the emitters fired for run r, in order, as <<name, payload>>
AddEvents(r) ==
    LET fired(e) == e.run = r /\ e.op \in AddEventOps
        es == SelectSeq(addLog, fired)
    IN  [i \in 1..Len(es) |-> <<es[i].op, es[i].arg>>]

AddSucceeded(r) == Idx(addLog, "addResolved", r) # {}

AddFailed(r) == Idx(addLog, "addRejected", r) # {}

\* C1: when addAccount succeeds, the run fires exactly one start and then
\* exactly one complete, fires no error, and its promise resolves true; until
\* the complete event has fired the promise is still pending.
C1_AddSuccess ==
    \A r \in Runs : AddSucceeded(r) =>
        IF addPc[r] = "done"
        THEN /\ AddEvents(r) = <<<<"start", "">>, <<"complete", "">>>>
             /\ addResult[r] = Promise("resolved", "true")
        ELSE /\ AddEvents(r) = <<<<"start", "">>>>
             /\ addResult[r] = Promise("pending", "")

C1_Witness ==
    \E r \in Runs : AddSucceeded(r) /\ addPc[r] = "done"

\* C2: when addAccount rejects with E, the run fires start, then error
\* carrying exactly E, then complete, each once, and its promise rejects
\* with E.
C2_AddFailure ==
    \A r \in Runs : AddFailed(r) =>
        LET E == addLog[CHOOSE i \in Idx(addLog, "addRejected", r) : TRUE].arg
        IN  IF addPc[r] = "done"
            THEN /\ AddEvents(r) =
                        <<<<"start", "">>, <<"error", E>>, <<"complete", "">>>>
                 /\ addResult[r] = Promise("rejected", E)
            ELSE /\ AddEvents(r) = <<<<"start", "">>>>
                 /\ addResult[r] = Promise("pending", "")

C2_Witness ==
    \E r \in Runs :
        /\ AddFailed(r)
        /\ addPc[r] = "done"
        /\ addResult[r] = Promise("rejected", "E")

AddSettled(r) == Idx(addLog, "addResolved", r) \cup Idx(addLog, "addRejected", r)

AddAllSettled == IdxOp(addLog, "addResolved") \cup IdxOp(addLog, "addRejected")

AddPromiseSettled(r) == Idx(addLog, "resolve", r) \cup Idx(addLog, "reject", r)

\* C9: under every interleaving of overlapping runs, each run's start fires
\* before its addAccount call, its complete fires after its addAccount has
\* settled and before its promise settles, and complete events never
\* outnumber settled addAccount operations nor start events.
C9_AddOrdering ==
    /\ \A r \in Runs :
        /\ \A i \in Idx(addLog, "addAccount", r) :
                \E s \in Idx(addLog, "start", r) : s < i
        /\ \A c \in Idx(addLog, "complete", r) :
                \E s \in AddSettled(r) : s < c
        /\ \A p \in AddPromiseSettled(r) :
                \E c \in Idx(addLog, "complete", r) : c < p
    /\ Cardinality(IdxOp(addLog, "complete")) <= Cardinality(AddAllSettled)
    /\ Cardinality(IdxOp(addLog, "complete")) <= Cardinality(IdxOp(addLog, "start"))

\* two runs overlap: the second starts before the first completes
C9_Witness ==
    \E r, q \in Runs :
        /\ r # q
        /\ addPc[r] = "done"
        /\ addPc[q] = "done"
        /\ \E s \in Idx(addLog, "start", q), a \in Idx(addLog, "start", r),
              c \in Idx(addLog, "complete", r) : a < s /\ s < c

-----------------------------------------------------------------------------
(* RemoveAccountAction: properties *)

RmHas(r, op) == IdxOp(rmLog[r], op) # {}

RmArg(r, op) == rmLog[r][CHOOSE i \in IdxOp(rmLog[r], op) : TRUE].arg

Declined(r) == RmHas(r, "confirmResolved") /\ RmArg(r, "confirmResolved") = "false"

Confirmed(r) == RmHas(r, "confirmResolved") /\ RmArg(r, "confirmResolved") = "true"

\* C3: when confirm resolves false, removeAccount is never called, nothing
\* is notified, and the promise resolves false.
C3_Declined ==
    \A r \in Runs : Declined(r) =>
        /\ ~RmHas(r, "removeAccount")
        /\ ~RmHas(r, "notify")
        /\ rmResult[r].state # "rejected"
        /\ rmPc[r] = "done" => rmResult[r] = Promise("resolved", "false")

C3_Witness ==
    \E r \in Runs : Declined(r) /\ rmPc[r] = "done"

\* C4: when confirm resolves true, removeAccount is called exactly once with
\* the account's key; if it resolves with b the promise resolves with b and
\* nothing is notified; if it rejects, exactly one error notification is
\* issued and the promise resolves false.
C4_Confirmed ==
    \A r \in Runs : (Confirmed(r) /\ rmPc[r] # "confirmResolved") =>
        /\ Cardinality(IdxOp(rmLog[r], "removeAccount")) = 1
        /\ RmArg(r, "removeAccount") = rmAccount.key
        /\ rmResult[r].state # "rejected"
        /\ RmHas(r, "removeResolved") =>
            /\ ~RmHas(r, "notify")
            /\ rmPc[r] = "done" =>
                rmResult[r] = Promise("resolved", RmArg(r, "removeResolved"))
        /\ (RmHas(r, "removeRejected") /\ rmPc[r] = "done") =>
            /\ Cardinality(IdxOp(rmLog[r], "notify")) = 1
            /\ RmArg(r, "notify") = "Error"
            /\ rmResult[r] = Promise("resolved", "false")
        /\ rmPc[r] # "done" =>
            /\ ~RmHas(r, "notify")
            /\ rmResult[r] = Promise("pending", "")

\* one run whose removal was rejected and one whose removal resolved true
C4_Witness ==
    \E r, q \in Runs :
        /\ Confirmed(r) /\ RmHas(r, "removeRejected") /\ rmPc[r] = "done"
        /\ Confirmed(q) /\ RmHas(q, "removeResolved") /\ rmPc[q] = "done"
        /\ RmArg(q, "removeResolved") = "true"

\* C5: the promise run() returns never rejects, whatever the dialog service
\* and the account service do.
C5_NeverRejects ==
    \A r \in Runs : rmResult[r].state # "rejected"

-----------------------------------------------------------------------------
(* RefreshAccountAction: properties *)

\* C6: a run that finds the account field unset never calls refreshAccount
\* and its promise is rejected with "There is no account to refresh";
\* refreshAccount is called only by runs that found the account set, and
\* with that account.
C6_NoAccount ==
    \A r \in Runs :
        /\ (rfPc[r] # "idle" /\ rfSeen[r] = NoAccount) =>
            /\ IdxOp(rfLog[r], "refreshAccount") = {}
            /\ rfResult[r] = Promise("rejected", NoAccountToRefresh)
        /\ \A i \in IdxOp(rfLog[r], "refreshAccount") :
            /\ rfSeen[r] # NoAccount
            /\ rfLog[r][i].arg = rfSeen[r].key

\* a run made with no account, and a run made after the account was assigned
C6_Witness ==
    \E r, q \in Runs :
        /\ rfPc[r] = "done" /\ rfSeen[r] = NoAccount
        /\ IdxOp(rfLog[q], "refreshAccount") # {}

-----------------------------------------------------------------------------
(* WebviewWidget: properties *)

\* entries that begin a step: a call on the widget or a message of a surface
StepOps == CallOps \cup {"ngOnInit", "message"}

\* last index of the step that begins at index i of the log
StepEnd(log, i) ==
    LET later == {j \in (i + 1)..Len(log) : log[j].op \in StepOps}
    IN  IF later = {} THEN Len(log)
        ELSE (CHOOSE j \in later : \A k \in later : j <= k) - 1

\* the first creation of a surface, preceded by a setHtml of a non-empty string
FirstInit(i) ==
    /\ i \in IdxOp(wvLog, "ngOnInit")
    /\ \A j \in IdxOp(wvLog, "ngOnInit") : i <= j

LastSetHtmlBefore(i) ==
    LET before == {j \in IdxOp(wvLog, "setHtml") : j < i}
    IN  CHOOSE j \in before : \A k \in before : k <= j

HtmlBeforeSurface(i) ==
    /\ FirstInit(i)
    /\ \E j \in IdxOp(wvLog, "setHtml") : j < i
    /\ wvLog[LastSetHtmlBefore(i)].arg # ""

\* C7: when setHtml(x), x non-empty, was called before any surface existed,
\* the creation of the surface assigns x to the new surface's contents
\* exactly once, after mounting the surface, and lays the surface out after
\* the assignment.
C7_HtmlReapplied ==
    \A i \in 1..Len(wvLog) : HtmlBeforeSurface(i) =>
        LET x == wvLog[LastSetHtmlBefore(i)].arg
            step == i..StepEnd(wvLog, i)
            made == {j \in step : wvLog[j].op = "createInstance"}
            set == {j \in step : wvLog[j].op = "contents"}
        IN  /\ Cardinality(made) = 1
            /\ Cardinality(set) = 1
            /\ \A c \in set, n \in made :
                /\ wvLog[c].arg = x
                /\ wvLog[c].run = wvLog[n].run
                /\ \E m \in step : /\ wvLog[m].op = "mountTo"
                                   /\ wvLog[m].run = wvLog[n].run
                                   /\ n < m /\ m < c
                /\ \E l \in step : /\ wvLog[l].op = "layoutSurface"
                                   /\ wvLog[l].run = wvLog[n].run
                                   /\ c < l

C7_Witness ==
    \E i \in 1..Len(wvLog) :
        /\ HtmlBeforeSurface(i)
        /\ wvLog[LastSetHtmlBefore(i)].arg = "x"
        /\ wvWebview # 0
        /\ wvSurfaces[1].contents = "x"

Live == {s \in DOMAIN wvSurfaces : ~wvSurfaces[s].disposed}

Listening == {s \in DOMAIN wvSurfaces : wvSurfaces[s].listening}

\* surface s has been replaced by index i of the log
ReplacedBy(s, i) ==
    \E n \in IdxOp(wvLog, "createInstance") : n < i /\ wvLog[n].run > s

\* C8: at most one surface and at most one message subscription are
\* undisposed; every creation disposes the previous surface and the previous
\* subscription before it instantiates the new surface; a message of a
\* replaced surface is never fired on onMessage.
C8_SingleSurface ==
    /\ Cardinality(Live) <= 1
    /\ Cardinality(Listening) <= 1
    /\ Live \subseteq {wvWebview}
    /\ Listening \subseteq {wvSub}
    /\ \A n \in IdxOp(wvLog, "createInstance") :
        \A s \in 1..(wvLog[n].run - 1) :
            /\ \E d \in Idx(wvLog, "dispose", s) : d < n
            /\ \E u \in Idx(wvLog, "unsubscribe", s) : u < n
    /\ \A f \in IdxOp(wvLog, "fire") : ~ReplacedBy(wvLog[f].run, f)

\* a replaced surface has emitted a message
C8_Witness ==
    \E m \in IdxOp(wvLog, "message") : ReplacedBy(wvLog[m].run, m)

ConnAccesses(op) == {i \in 1..Len(connLog) : connLog[i].op = op}

\* C10: connection and serverInfo are computed from the service's current
\* connection info at the first access, and every later access returns that
\* same value, whatever the service holds by then.
C10_Memoized ==
    \A op \in {"connection", "serverInfo"} :
        \A i \in ConnAccesses(op) :
            LET first == CHOOSE j \in ConnAccesses(op) :
                            \A k \in ConnAccesses(op) : j <= k
            IN  /\ connLog[first].value = connLog[first].current
                /\ connLog[i].value = connLog[first].value

\* both getters were read again after the service had changed
C10_Witness ==
    \A op \in {"connection", "serverInfo"} :
        \E i, j \in ConnAccesses(op) :
            i < j /\ connLog[j].current # connLog[i].current

====
